---- MODULE Spec2Model ----
(***************************************************************************)
(* Model of cloneHw.ts: one run of main() is                               *)
(*   validateRepoName -> xhr -> filterStudentsPullRequests ->              *)
(*   cloneRepositories (mkdir, forEach: existsSync / spawnProcess) ->      *)
(*   logMissingSubmissions,                                                *)
(* with every spawned `git clone` running as a separate operating-system   *)
(* process that shares the filesystem with the run.  A second run of the   *)
(* program over the same inputs and the same directory tree follows.       *)
(***************************************************************************)
EXTENDS Integers, Sequences, FiniteSets, TLC

VARIABLES
    argv,           \* process.argv from index 2 on; each argument a sequence of characters
    response,       \* what the host answers: [kind, prs]
    students,       \* config.json students: sequence of [name, username]
    run,            \* 1 for the first run of the program, 2 for the second
    pc,             \* position of main() in the current run
    requests,       \* number of https get() calls issued by the current run
    xhrOutcome,     \* "none" | "pending" | "resolved" | "rejected"
    pullRequests,   \* value xhr resolved with (a response record)
    filterRan,      \* filterStudentsPullRequests was entered in this run
    submissions,    \* studentSubmissions
    idx,            \* forEach position in cloneRepositories (0 = not entered)
    decisions,      \* per submission handled by forEach: [i, kind, name]
    console,        \* console.log lines of the current run, by category
    report,         \* lines printed by logMissingSubmissions (each a name list)
    dirs,           \* directories that exist on disk
    dirsAtStart,    \* dirs when the current run started
    children        \* spawned git-clone subprocesses: [run, name, phase]

vars == <<argv, response, students, run, pc, requests, xhrOutcome,
          pullRequests, filterRan, submissions, idx, decisions, console,
          report, dirs, dirsAtStart, children>>

\* ---------------------------------------------------------------- bounds
MaxPRs == 2
MaxRoster == 2

\* ---------------------------------------------------------------- values
\* A missing JSON field / undefined value.
Absent == "<absent>"

\* Sentinel of line 135.
NoUserFound == "no user found"

\* \w of line 59: [A-Za-z0-9_]
WordChars ==
    {"a","b","c","d","e","f","g","h","i","j","k","l","m","n","o","p","q","r",
     "s","t","u","v","w","x","y","z",
     "A","B","C","D","E","F","G","H","I","J","K","L","M","N","O","P","Q","R",
     "S","T","U","V","W","X","Y","Z",
     "0","1","2","3","4","5","6","7","8","9","_"}

\* Property names every object literal `{}` inherits from Object.prototype.
ObjectPrototypeKeys ==
    {"constructor", "toString", "valueOf", "hasOwnProperty", "isPrototypeOf",
     "propertyIsEnumerable", "toLocaleString", "__proto__"}

\* What `${studentLookup[key]}` prints for an inherited property: the source
\* text of a native function, never a roster name.
InheritedValue(key) ==
    IF key = "__proto__" THEN "[object Object]" ELSE "function () { [native code] }"

\* ---------------------------------------------------------------- inputs
\* Command lines: no argument, an empty one, a valid name, two invalid ones.
CommandLines ==
    { << >>, << << >> >>, << <<"h","w","1">> >>,
      << <<"-","h","w">> >>, << <<".","h","w">> >> }

StudentPool ==
    { [name |-> "Alice", username |-> "a1"],
      [name |-> "Bob",   username |-> "b1"],
      [name |-> "Carol", username |-> "c1"] }

\* A pull request as far as the program reads it: user?.login, head?.ref,
\* base.repo.full_name.  The logins are the two students' (a stranger to
\* every roster that lacks one of them), a user named like an inherited
\* property, and no user; the last pull request has no base repository.
PullRequestPool ==
    { [login |-> l, ref |-> r, full_name |-> "org/hw1"] :
        l \in {"a1", "b1"}, r \in {"main", "master", "Main", Absent} }
    \cup { [login |-> l, ref |-> r, full_name |-> "org/hw1"] :
        l \in {"constructor", Absent}, r \in {"main", "Main"} }
    \cup { [login |-> "a1", ref |-> "main", full_name |-> Absent] }

SeqsUpTo(S, n) == UNION { [1..k -> S] : k \in 0..n }

\* Rosters: a student's username is its identity, so no username repeats.
Rosters ==
    { r \in SeqsUpTo(StudentPool, MaxRoster) :
        \A i, j \in DOMAIN r : i # j => r[i].username # r[j].username }

Responses ==
    { [kind |-> "list", prs |-> p] : p \in SeqsUpTo(PullRequestPool, MaxPRs) }
    \cup { [kind |-> "message", prs |-> << >>],
           [kind |-> "streamError", prs |-> << >>] }

\* ------------------------------------------------------- pure functions
NoError == "<no error>"

\* validateRepoName without the test of the first character.
validateRepoNameNoRegex(args) ==
    IF Len(args) = 0 \/ args[1] = << >>
    THEN "No repository name supplied in arguments! Exiting..."
    ELSE NoError

\* validateRepoName, lines 53-65; the argument is process.argv[2], undefined
\* when the command line has no argument.
validateRepoName(args) ==
    IF Len(args) = 0 \/ args[1] = << >>
    THEN "No repository name supplied in arguments! Exiting..."
    ELSE IF ~(args[1][1] \in WordChars)
    THEN "Invalid repository name! Exiting..."
    ELSE NoError

\* The narrowing probing a field the error payload does not have.
HasErrorField(resp) == resp.kind = "error"

\* `'message' in response`, line 100.
HasMessageField(resp) == resp.kind = "message"

\* Own keys of studentLookup, lines 130-133 and 151-154.
StudentLookupKeys(studs) == { studs[i].username : i \in DOMAIN studs }

\* `key in studentLookup`, line 140: own and inherited properties.
InStudentLookup(studs, key) ==
    key \in StudentLookupKeys(studs) \/ key \in ObjectPrototypeKeys

\* `studentLookup[key]`, line 163, as interpolated into a string: the last
\* roster entry with that username wins; an inherited property is found on
\* Object.prototype; anything else is undefined.
StudentLookupGet(studs, key) ==
    IF key \in StudentLookupKeys(studs)
    THEN LET last == CHOOSE i \in DOMAIN studs :
                        /\ studs[i].username = key
                        /\ \A j \in DOMAIN studs : studs[j].username = key => j <= i
         IN studs[last].name
    ELSE IF key \in ObjectPrototypeKeys THEN InheritedValue(key)
    ELSE Absent

\* `pullRequest.user?.login ?? "no user found"`, line 135.
Username(pr) == IF pr.login = Absent THEN NoUserFound ELSE pr.login

\* The branch test comparing without regard to case.
BranchAllowedAnyCase(pr) == pr.ref \in {"main", "master", "Main", "Master"}

\* Negation of the `continue` test of line 138.
BranchAllowed(pr) == pr.ref = "main" \/ pr.ref = "master"

\* filterStudentsPullRequests, lines 126-146.
filterStudentsPullRequests(prs, studs) ==
    SelectSeq(prs, LAMBDA pr : BranchAllowed(pr) /\ InStudentLookup(studs, Username(pr)))

\* Paths: the target directory itself has entry "".
TargetDir(args) == [dir |-> args[1], entry |-> ""]
DestPath(args, studentName) == [dir |-> args[1], entry |-> studentName]

\* The existence test looking for the student's folder outside the target
\* directory, where no clone ever puts it.
ShouldSpawnWrongPath(fs, args, studentName) ==
    [dir |-> << >>, entry |-> studentName] \notin fs

\* `!existsSync(`${repoName}/${studentName}`)`, line 168.
ShouldSpawn(fs, args, studentName) == DestPath(args, studentName) \notin fs

\* Lines 162-163 run outside the try block: reading base.repo.full_name of a
\* pull request without base repository, or user.login of one without user,
\* throws a TypeError.
ThrowsBeforeTry(submission) ==
    submission.full_name = Absent \/ submission.login = Absent

\* logMissingSubmissions, lines 194-203: the lines it prints, each line the
\* list of names it concatenates.
GithubUsernames(subs) == { subs[i].login : i \in DOMAIN subs }

\* The roster filter without its negation: the students who did submit.
DifferenceSubmitted(subs, studs) ==
    SelectSeq(studs, LAMBDA st : st.username \in GithubUsernames(subs))

Difference(subs, studs) ==
    SelectSeq(studs, LAMBDA st : st.username \notin GithubUsernames(subs))

logMissingSubmissions(subs, studs) ==
    IF Len(subs) # Len(studs)
    THEN LET d == Difference(subs, studs)
         IN << [i \in DOMAIN d |-> d[i].name] >>
    ELSE << >>

\* The shell runs `git clone ... <dir>/<name>` only if the command line parses;
\* the text of a native function holds `(`, `{` and blanks.
ShellSafe(studentName) ==
    \A k \in ObjectPrototypeKeys : studentName # InheritedValue(k)

\* ------------------------------------------------------------- the runs
NoResponse == [kind |-> "none", prs |-> << >>]

Init ==
    /\ argv \in CommandLines
    /\ response \in Responses
    /\ students \in Rosters
    /\ run = 1
    /\ pc = "start"
    /\ requests = 0
    /\ xhrOutcome = "none"
    /\ pullRequests = NoResponse
    /\ filterRan = FALSE
    /\ submissions = << >>
    /\ idx = 0
    /\ decisions = << >>
    /\ console = << >>
    /\ report = << >>
    /\ dirs = {}
    /\ dirsAtStart = {}
    /\ children = << >>

\* The catch block of main, lines 45-48: print and process.exit().
Fatal ==
    /\ console' = Append(console, "fatal")
    /\ pc' = "exited"

\* main up to `await xhr(...)`, lines 25-39, with the request of lines 84-85.
Main ==
    /\ pc = "start"
    /\ IF validateRepoName(argv) # NoError
       THEN /\ console' = Append(console, "validation")
            /\ pc' = "exited"
            /\ UNCHANGED <<requests, xhrOutcome>>
       ELSE /\ requests' = requests + 1
            /\ xhrOutcome' = "pending"
            /\ pc' = "fetch"
            /\ UNCHANGED console
    /\ UNCHANGED <<argv, response, students, run, pullRequests, filterRan,
                   submissions, idx, decisions, report, dirs, dirsAtStart, children>>

\* res.on('end'), lines 96-106: reject an error payload, resolve anything else.
XhrEnd ==
    /\ pc = "fetch"
    /\ response.kind # "streamError"
    /\ IF HasMessageField(response)
       THEN /\ xhrOutcome' = "rejected"
            /\ Fatal
            /\ UNCHANGED pullRequests
       ELSE /\ xhrOutcome' = "resolved"
            /\ pullRequests' = response
            /\ pc' = "filter"
            /\ UNCHANGED console
    /\ UNCHANGED <<argv, response, students, run, requests, filterRan,
                   submissions, idx, decisions, report, dirs, dirsAtStart, children>>

\* res.on('error'), lines 107-109.
XhrError ==
    /\ pc = "fetch"
    /\ response.kind = "streamError"
    /\ xhrOutcome' = "rejected"
    /\ Fatal
    /\ UNCHANGED <<argv, response, students, run, requests, pullRequests, filterRan,
                   submissions, idx, decisions, report, dirs, dirsAtStart, children>>

\* Line 40; `for ... of` over a payload that is no array throws.
Filter ==
    /\ pc = "filter"
    /\ filterRan' = TRUE
    /\ IF pullRequests.kind # "list"
       THEN Fatal /\ UNCHANGED submissions
       ELSE /\ submissions' = filterStudentsPullRequests(pullRequests.prs, students)
            /\ pc' = "clone"
            /\ UNCHANGED console
    /\ UNCHANGED <<argv, response, students, run, requests, xhrOutcome, pullRequests,
                   idx, decisions, report, dirs, dirsAtStart, children>>

\* cloneRepositories up to the forEach, lines 149-159.
CloneRepositoriesBegin ==
    /\ pc = "clone"
    /\ dirs' = dirs \cup {TargetDir(argv)}
    /\ idx' = 1
    /\ pc' = "loop"
    /\ UNCHANGED <<argv, response, students, run, requests, xhrOutcome, pullRequests,
                   filterRan, submissions, decisions, console, report, dirsAtStart,
                   children>>

\* spawnProcess, lines 180-191: the subprocess starts, or spawn throws.
spawnProcess(studentName, started) ==
    IF started
    THEN /\ children' = Append(children, [run |-> run, name |-> studentName, phase |-> "spawned"])
         /\ decisions' = Append(decisions, [i |-> idx, kind |-> "spawn", name |-> studentName])
         /\ UNCHANGED console
    ELSE /\ decisions' = Append(decisions, [i |-> idx, kind |-> "caught", name |-> studentName])
         /\ console' = Append(console, "caught")
         /\ UNCHANGED children

\* One call of the forEach callback, lines 161-177.
ForEachSubmission ==
    /\ pc = "loop"
    /\ idx <= Len(submissions)
    /\ LET submission == submissions[idx]
           studentName == StudentLookupGet(students, submission.login)
       IN IF ThrowsBeforeTry(submission)
          THEN /\ Fatal
               /\ UNCHANGED <<idx, decisions, children>>
          ELSE /\ idx' = idx + 1
               /\ pc' = "loop"
               /\ IF ShouldSpawn(dirs, argv, studentName)
                  THEN \E started \in BOOLEAN : spawnProcess(studentName, started)
                  ELSE /\ decisions' = Append(decisions, [i |-> idx, kind |-> "skip", name |-> studentName])
                       /\ console' = Append(console, "skip")
                       /\ UNCHANGED children
    /\ UNCHANGED <<argv, response, students, run, requests, xhrOutcome, pullRequests,
                   filterRan, submissions, report, dirs, dirsAtStart>>

\* cloneRepositories resolving only once every subprocess has ended.
CloneRepositoriesAwaitsClones ==
    /\ idx > Len(submissions)
    /\ \A c \in DOMAIN children : children[c].phase = "exited"

\* The forEach is over and cloneRepositories' promise resolves: nothing in
\* lines 149-178 waits for a subprocess.
CloneRepositoriesReturned == idx > Len(submissions)

\* Line 44.
LogMissingSubmissions ==
    /\ pc = "loop"
    /\ CloneRepositoriesReturned
    /\ report' = logMissingSubmissions(submissions, students)
    /\ console' = console \o [i \in DOMAIN report' |-> "missing"]
    /\ pc' = "done"
    /\ UNCHANGED <<argv, response, students, run, requests, xhrOutcome, pullRequests,
                   filterRan, submissions, idx, decisions, dirs, dirsAtStart, children>>

\* git clone creates its destination directory; it refuses a destination that
\* is already there, and the shell never starts it for an unparsable command.
ChildClone(c) ==
    /\ children[c].phase = "spawned"
    /\ ShellSafe(children[c].name)
    /\ DestPath(argv, children[c].name) \notin dirs
    /\ dirs' = dirs \cup {DestPath(argv, children[c].name)}
    /\ children' = [children EXCEPT ![c].phase = "cloning"]
    /\ UNCHANGED <<argv, response, students, run, pc, requests, xhrOutcome, pullRequests,
                   filterRan, submissions, idx, decisions, console, report, dirsAtStart>>

\* The subprocess ends: the clone is complete, or it failed or was killed
\* (lines 187-190) before or after creating the directory.
ChildExit(c) ==
    /\ children[c].phase \in {"spawned", "cloning"}
    /\ children' = [children EXCEPT ![c].phase = "exited"]
    /\ UNCHANGED <<argv, response, students, run, pc, requests, xhrOutcome, pullRequests,
                   filterRan, submissions, idx, decisions, console, report, dirs,
                   dirsAtStart>>

\* The program is started again with the same command line, configuration and
\* host answer, once the first run and its subprocesses have ended.
SecondRun ==
    /\ run = 1
    /\ pc \in {"done", "exited"}
    /\ \A c \in DOMAIN children : children[c].phase = "exited"
    /\ run' = 2
    /\ pc' = "start"
    /\ requests' = 0
    /\ xhrOutcome' = "none"
    /\ pullRequests' = NoResponse
    /\ filterRan' = FALSE
    /\ submissions' = << >>
    /\ idx' = 0
    /\ decisions' = << >>
    /\ console' = << >>
    /\ report' = << >>
    /\ dirsAtStart' = dirs
    /\ UNCHANGED <<argv, response, students, dirs, children>>

Next ==
    \/ Main
    \/ XhrEnd
    \/ XhrError
    \/ Filter
    \/ CloneRepositoriesBegin
    \/ ForEachSubmission
    \/ LogMissingSubmissions
    \/ \E c \in DOMAIN children : ChildClone(c)
    \/ \E c \in DOMAIN children : ChildExit(c)
    \/ SecondRun

Spec == Init /\ [][Next]_vars

\* --------------------------------------------------------------- claims
SpawnDecisions == { k \in DOMAIN decisions : decisions[k].kind = "spawn" }

\* The host's list holds no author named like a property that object
\* literals inherit, so that every author the filter can keep is a roster
\* student.
AuthorsPlain ==
    \A i \in DOMAIN response.prs : response.prs[i].login \notin ObjectPrototypeKeys

\* C1: within one run no two clone subprocesses are spawned for the same
\* destination <repoName>/<studentName>, also when a roster author has two
\* matching pull requests.
C1_OneClonePerDestination ==
    AuthorsPlain =>
      \A j, k \in SpawnDecisions : decisions[j].name = decisions[k].name => j = k

\* C2: every pull request the filter returns is authored by a roster username.
C2_SubmissionsByRosterAuthors ==
    \A i \in DOMAIN submissions :
        submissions[i].login \in { students[j].username : j \in DOMAIN students }

\* C3: every pull request the filter returns has head branch exactly main or
\* exactly master; any other branch, or none, is excluded whoever the author.
C3_OnlyDefaultBranches ==
    /\ \A i \in DOMAIN submissions : submissions[i].ref \in {"main", "master"}
    /\ filterRan /\ pc # "exited" =>
         \A i \in DOMAIN pullRequests.prs :
            pullRequests.prs[i].ref \notin {"main", "master"} =>
               \A j \in DOMAIN submissions : submissions[j] # pullRequests.prs[i]

\* C3 witness: the filter has run over a roster member's pull request from
\* the branch Main and kept another pull request.
C3_Witness ==
    /\ pc = "clone"
    /\ Len(submissions) = 1
    /\ \E i \in DOMAIN pullRequests.prs :
          /\ pullRequests.prs[i].ref = "Main"
          /\ pullRequests.prs[i].login \in StudentLookupKeys(students)

\* C4 as claimed: the second run spawns no clone subprocess at all.
C4_SecondRunSpawnsNothing ==
    /\ AuthorsPlain
    /\ run = 2
    /\ \A i \in DOMAIN submissions :
          \E c \in DOMAIN children :
             /\ children[c].run = 1
             /\ children[c].name = StudentLookupGet(students, submissions[i].login)
    => SpawnDecisions = {}

\* C4 amended: the second run spawns no clone for a destination that exists
\* when it starts, hence none at all when every destination exists then.
C4_SecondRunSkipsExisting ==
    run = 2 =>
      /\ \A k \in SpawnDecisions : DestPath(argv, decisions[k].name) \notin dirsAtStart
      /\ (\A i \in DOMAIN submissions :
             DestPath(argv, StudentLookupGet(students, submissions[i].login)) \in dirsAtStart)
           => SpawnDecisions = {}

\* C4 witness: a second run that skipped two submissions cloned by the first.
C4_Witness ==
    /\ run = 2
    /\ pc = "done"
    /\ Len(submissions) = 2
    /\ Len(decisions) = 2
    /\ \A k \in DOMAIN decisions :
          /\ decisions[k].kind = "skip"
          /\ DestPath(argv, decisions[k].name) \in dirsAtStart
    /\ Len(children) = 2

\* C5: an answer with a `message` field makes xhr reject and the run abort:
\* no filter, no target directory, no clone, no missing-submissions line.
C5_ApiErrorAborts ==
    response.kind = "message" =>
      /\ xhrOutcome # "resolved"
      /\ pc \in {"start", "fetch", "exited"}
      /\ pc = "exited" /\ requests = 1 => xhrOutcome = "rejected"
      /\ ~filterRan
      /\ dirs = {}
      /\ decisions = << >>
      /\ children = << >>
      /\ report = << >>

\* C5 witness: the request was made, answered with an error payload, and
\* the run ended in main's catch.
C5_Witness ==
    /\ response.kind = "message"
    /\ requests = 1
    /\ xhrOutcome = "rejected"
    /\ pc = "exited"
    /\ console = <<"fatal">>

InvalidRepoName ==
    \/ Len(argv) = 0
    \/ argv[1] = << >>
    \/ argv[1][1] \notin WordChars

\* C6: a missing, empty or not-^\w repository name ends the run before any
\* network request, directory or clone.
C6_InvalidNameNoRequest ==
    InvalidRepoName =>
      /\ requests = 0
      /\ xhrOutcome = "none"
      /\ pc \in {"start", "exited"}
      /\ dirs = {}
      /\ children = << >>

\* C6 witness: the run ended on the name "-hw", having printed the
\* validation message.
C6_Witness ==
    /\ argv = << <<"-","h","w">> >>
    /\ pc = "exited"
    /\ console = <<"validation">>

\* C7: once cloneRepositories handles submissions, a failure on one of them
\* never aborts the run.
C7_FailureNeverAbortsRun == idx >= 1 => pc # "exited"

MissingIndexes ==
    { i \in DOMAIN students :
        \A j \in DOMAIN submissions : submissions[j].login # students[i].username }

\* The names of the students at `indexes`, each once, in roster order.
IsRosterOrderListing(line, indexes) ==
    /\ Len(line) = Cardinality(indexes)
    /\ \E f \in [DOMAIN line -> indexes] :
          /\ \A a, b \in DOMAIN line : a < b => f[a] < f[b]
          /\ \A a \in DOMAIN line : line[a] = students[f[a]].name

\* C8: with differing counts exactly one line is printed, naming exactly the
\* roster students without a submission, each once, in roster order; with
\* equal counts nothing is printed.
C8_MissingLine ==
    /\ pc # "done" => report = << >>
    /\ pc = "done" =>
         IF Len(submissions) = Len(students)
         THEN report = << >>
         ELSE Len(report) = 1 /\ IsRosterOrderListing(report[1], MissingIndexes)

\* C8 witness: a roster of two distinct students, one submission, and a
\* line naming the other student.
C8_Witness ==
    /\ pc = "done"
    /\ Len(students) = 2
    /\ students[1] # students[2]
    /\ Len(submissions) = 1
    /\ Len(report) = 1
    /\ Len(report[1]) = 1

\* C9: decisions are taken in submission order; the report comes after the
\* decision for every submission; and once the forEach is over the report is
\* ready to be emitted whatever the subprocesses are doing.
C9_ReportAfterDecisionsNoWait ==
    /\ \A k \in DOMAIN decisions : decisions[k].i = k
    /\ pc = "done" => Len(decisions) = Len(submissions)
    /\ pc = "loop" /\ idx > Len(submissions) => ENABLED LogMissingSubmissions

\* C9 witness: the report is out while both clones spawned by this run are
\* still running and have not even created their directories.
C9_Witness ==
    /\ run = 1
    /\ pc = "done"
    /\ Len(report) = 1
    /\ Len(children) = 2
    /\ \A c \in DOMAIN children : children[c].phase = "spawned"

\* C10: when every roster student authored a submission of the filter's
\* output, no missing-submissions line is printed.
C10_NoLineWhenAllSubmitted ==
    AuthorsPlain /\ MissingIndexes = {} => report = << >>

====
